---- MODULE Spec2Model ----
(***************************************************************************)
(* fail2ban: an HTTP middleware that counts 4xx responses per client and   *)
(* answers 403 to a client whose counter reached the threshold, until its  *)
(* ban window has elapsed.  The model follows src/fail2ban.go: ServeHTTP,  *)
(* isClientBanned, incrementViewCounter, cleaner, extractClient and the    *)
(* interceptor.                                                            *)
(***************************************************************************)
EXTENDS Integers, Sequences, FiniteSets, Bags, TLC

(***************************************************************************)
(* Bounds of the model.                                                    *)
(***************************************************************************)
\* number of ServeHTTP goroutines that can be in flight at once
NumReqs == 2
\* the clock advances at most Horizon ticks after StartTime
Horizon == 2
\* width of Go's uint, scaled down (64 or 32 in a real build)
UintBits == 2
\* largest configured NumberFails that Init draws
MaxNumberFails == 2
\* a Logger under test takes at most MaxLog calls of its logging methods
MaxLog == 3

(***************************************************************************)
(* Values.                                                                 *)
(***************************************************************************)
\* client identities: header values and RemoteAddr hosts
Clients == {"1.2.3.4", "5.6.7.8"}
\* configured BanTime values, in clock ticks
BanTimes == {1}
\* the zero time.Time, the value of a lastViewed that was never assigned
ZeroTime == 0
\* time.Now() at construction: the zero time plus any ban time is long past
StartTime == ZeroTime + 3
MaxTime == StartTime + Horizon
Times == StartTime..MaxTime
UintModulus == 2^UintBits
\* uint arithmetic: x + 1 wraps to 0 at 2^w
UintInc(x) == (x + 1) % UintModulus

StatusForbidden == 403
StatusAccepted == 202
StatusBadRequest == 400
StatusInternalServerError == 500
\* what the downstream handler passes to WriteHeader; 0: it writes no header
DownstreamCodes == {0, 200, 399, 400, 499, 500}

VARIABLES
  maxFails,       \* f.maxFails
  banTime,        \* f.banTime
  clientHeader,   \* f.clientHeader ("" when not configured)
  logger,         \* f.logger, or the Logger that log.New returned
  levelArg,       \* history: the level log.New was called with
  handler,        \* what New returned: "none" before the call, "nil", "ok"
  bannedClients,  \* f.bannedClients: identity -> client record
  mu,             \* f.mu: "free" or its holder
  now,            \* the wall clock read by time.Now()
  ctxDone,        \* the cleaner's context has been cancelled
  timer,          \* the cleaner's timer: "armed" or "fired"
  cleanerPc,      \* the cleaner goroutine's position
  sweepNow,       \* the cleaner's local now
  toVisit,        \* keys the cleaner's range loop has yet to visit
  req,            \* the ServeHTTP goroutines in flight: a bag of their locals
  sweepStart,     \* history: the table when the running sweep took the lock
  expected,       \* history: mutations completed on a client's record
  fwd4xx,         \* history: forwarded 4xx requests recorded since creation
  thresholdAt,    \* history: when a failure brought the counter to maxFails
  lastRejectAt,   \* history: when the client's last check was rejected
  ev              \* history: what the last step did

config == <<maxFails, banTime, clientHeader, logger, levelArg, handler>>
cleanerVars == <<ctxDone, timer, cleanerPc, sweepNow, toVisit, sweepStart>>
history == <<expected, fwd4xx, thresholdAt, lastRejectAt>>
vars == <<maxFails, banTime, clientHeader, logger, levelArg, handler,
          bannedClients, mu, now, ctxDone,
          timer, cleanerPc, sweepNow, toVisit, req, sweepStart, expected,
          fwd4xx, thresholdAt, lastRejectAt, ev>>

\* the states of f.mu
Unlocked == "free"
HeldByHandler == "handler"
HeldByCleaner == "cleaner"

\* no time: the value of a history variable that is not set
None == ZeroTime - 1

(***************************************************************************)
(* The bannedClients map and the client record.                            *)
(***************************************************************************)
EmptyTable == [k \in {} |-> [lastViewed |-> ZeroTime, failCounter |-> 0]]
Has(m, ip) == ip \in DOMAIN m
Delete(m, ip) == [k \in DOMAIN m \ {ip} |-> m[k]]
Put(m, ip, c) == [k \in DOMAIN m \cup {ip} |-> IF k = ip THEN c ELSE m[k]]

\* time.Time.Add and time.Time.After on clock ticks
Add(t, d) == t + d
After(t, u) == t > u

\* a faulty variant: the boundary counts as expired
hasBanExpiredInclusive(c, currentTime, d) == currentTime >= Add(c.lastViewed, d)

\* client.hasBanExpired
hasBanExpired(c, currentTime, d) == After(currentTime, Add(c.lastViewed, d))

\* the record incrementViewCounter stores for an identity it has not seen:
\* &client{failCounter: 1}, lastViewed is left at its zero value
newClient == [lastViewed |-> ZeroTime, failCounter |-> 1]

\* a faulty variant: 500 counts as a bad user request
checkBadUserRequestStatusCodeInclusive(code) ==
  code >= StatusBadRequest /\ code <= StatusInternalServerError

\* interceptor.checkBadUserRequestStatusCode
checkBadUserRequestStatusCode(code) ==
  code >= StatusBadRequest /\ code < StatusInternalServerError

(***************************************************************************)
(* extractClient.  A request carries the value Header.Get returns for the  *)
(* configured header ("" when absent or empty) and RemoteAddr as a         *)
(* sequence of tokens, ":" separating host and port.                       *)
(***************************************************************************)
\* configured ClientHeader values
ClientHeaders == {"Cf-Connecting-IP"}
RemoteAddrs ==
  {<<h, ":", "5678">> : h \in Clients} \cup {<<h>> : h \in Clients}
Requests == [hdr : Clients \cup {""}, remoteAddr : RemoteAddrs]

LastColon(s) ==
  LET idx == {i \in 1..Len(s) : s[i] = ":"}
  IN IF idx = {} THEN 0 ELSE CHOOSE i \in idx : \A j \in idx : j <= i

\* net.SplitHostPort: the host before the last colon, an error without one
SplitHostPort(addr) ==
  LET i == LastColon(addr)
  IN IF i = 0 THEN [host |-> "", err |-> TRUE]
     ELSE IF \E j \in 1..(i - 1) : addr[j] = ":" THEN [host |-> "", err |-> TRUE]
     ELSE [host |-> IF i = 1 THEN "" ELSE addr[1], err |-> FALSE]

\* a faulty variant: the value of a configured header is used even if empty
extractClientEmptyHeader(header, r) ==
  IF Len(header) > 0
  THEN [client |-> r.hdr, err |-> FALSE]
  ELSE LET hp == SplitHostPort(r.remoteAddr)
       IN IF hp.err THEN [client |-> "", err |-> TRUE]
          ELSE [client |-> hp.host, err |-> FALSE]

\* fail2Ban.extractClient
extractClient(header, r) ==
  IF Len(header) > 0 /\ Len(r.hdr) # 0
  THEN [client |-> r.hdr, err |-> FALSE]
  ELSE LET hp == SplitHostPort(r.remoteAddr)
       IN IF hp.err THEN [client |-> "", err |-> TRUE]
          ELSE [client |-> hp.host, err |-> FALSE]

(***************************************************************************)
(* Package log: the Logger, its levels and message.  A Logger's output is  *)
(* the sequence of the entries written to it.  The handlers' own log lines *)
(* go to os.Stdout and are not part of the state.                          *)
(***************************************************************************)
Info == "INFO"
Debug == "DEBUG"
Error == "ERROR"
Warning == "WARN"
\* the LogLevel strings the model passes around
LogLevels == {Debug, Info, Warning, Error, "debug", "garbage"}

\* strings.ToUpper on LogLevels
ToUpper(l) ==
  CASE l = "debug" -> "DEBUG"
    [] l = "garbage" -> "GARBAGE"
    [] OTHER -> l

\* LogLevel.toInt
toInt(l) ==
  LET u == ToUpper(l)
  IN CASE u = Debug -> 0
       [] u = Warning -> 2
       [] u = Error -> 3
       [] OTHER -> 1

\* no Logger: a nil *Logger
NoLogger == [output |-> <<>>, prefix |-> "<nil>", logLevel |-> ""]

\* log.New: &Logger{output: os.Stdout, prefix: prefix}
NewLogger(prefix, level) == [output |-> <<>>, prefix |-> prefix, logLevel |-> ""]

\* whether Logger.message writes the entry
Emits(l, level) == ~(toInt(level) < toInt(l.logLevel))

\* Logger.message: the Logger after the call
message(l, level, msg) ==
  IF Emits(l, level)
  THEN [l EXCEPT !.output =
          Append(@, [prefix |-> l.prefix, level |-> level, msg |-> msg])]
  ELSE l

\* the levels of Debugf, Infof, Warnf and Errorf
MessageLevels == {Debug, Info, Warning, Error}

(***************************************************************************)
(* Initial state: New has returned, the table is empty, the cleaner is at  *)
(* its select with the timer armed.                                        *)
(***************************************************************************)

\* history: the record of an identity that has none
Absent == [lastViewed |-> None, failCounter |-> 0]
Lookup(m, ip) == IF Has(m, ip) THEN m[ip] ELSE Absent

\* history: no step of interest was the last one
NoEv ==
  [op |-> "none", client |-> "", case |-> "", ret |-> FALSE, status |-> 0,
   returned |-> FALSE, pre |-> Absent, at |-> None, same |-> TRUE,
   streak |-> FALSE, crossed |-> FALSE, input |-> <<>>]

Init ==
  /\ maxFails \in 1..MaxNumberFails
  /\ banTime \in BanTimes
  /\ clientHeader \in ClientHeaders
  /\ logger = NewLogger("Fail-2-Ban", Info)
  /\ levelArg = Info
  /\ handler = "ok"
  /\ bannedClients = EmptyTable
  /\ mu = Unlocked
  /\ now = StartTime
  /\ ctxDone = FALSE
  /\ timer = "armed"
  /\ cleanerPc = "select"
  /\ sweepNow = None
  /\ toVisit = {}
  /\ req = EmptyBag
  /\ sweepStart = EmptyTable
  /\ expected = [c \in Clients |-> 0]
  /\ fwd4xx = [c \in Clients |-> 0]
  /\ thresholdAt = [c \in Clients |-> None]
  /\ lastRejectAt = [c \in Clients |-> None]
  /\ ev = NoEv

(***************************************************************************)
(* New, lines 50-68.  A BanTime string is a sequence of tokens, numbers    *)
(* and units in turn; a tick of the clock is one second.                   *)
(***************************************************************************)
DurationNumbers == {"1"}
NumberValue(tok) == 1
DurationUnits == {"s", "m"}
UnitTicks(tok) == IF tok = "s" THEN 1 ELSE 60

RECURSIVE ParseTerms(_)
\* the loop of time.ParseDuration: [0-9]+ unit, one term after another
ParseTerms(s) ==
  IF s = <<>> THEN [d |-> 0, err |-> FALSE]
  ELSE IF s[1] \notin DurationNumbers THEN [d |-> 0, err |-> TRUE]
  ELSE IF Len(s) = 1 THEN [d |-> 0, err |-> TRUE]
  ELSE IF s[2] \notin DurationUnits THEN [d |-> 0, err |-> TRUE]
  ELSE LET rest == ParseTerms(SubSeq(s, 3, Len(s)))
       IN IF rest.err THEN rest
          ELSE [d |-> NumberValue(s[1]) * UnitTicks(s[2]) + rest.d,
                err |-> FALSE]

\* time.ParseDuration: the empty string is an error
ParseDuration(s) ==
  IF s = <<>> THEN [d |-> 0, err |-> TRUE] ELSE ParseTerms(s)

\* BanTime strings: "1s", and "", "1", "s", "1x" that do not parse
BanTimeStrings == {<<"1", "s">>, <<>>, <<"1">>, <<"s">>, <<"1", "x">>}
\* the Config values passed to New
Configs ==
  [NumberFails : 1..MaxNumberFails, BanTime : BanTimeStrings,
   ClientHeader : ClientHeaders \cup {""}, LogLevel : {Info}]

\* the state before New is called: no handler, no cleaner goroutine
InitNew ==
  /\ maxFails = 0
  /\ banTime = 0
  /\ clientHeader = ""
  /\ logger = NoLogger
  /\ levelArg = ""
  /\ handler = "none"
  /\ bannedClients = EmptyTable
  /\ mu = Unlocked
  /\ now = StartTime
  /\ ctxDone = FALSE
  /\ timer = "none"
  /\ cleanerPc = "unborn"
  /\ sweepNow = None
  /\ toVisit = {}
  /\ req = EmptyBag
  /\ sweepStart = EmptyTable
  /\ expected = [c \in Clients |-> 0]
  /\ fwd4xx = [c \in Clients |-> 0]
  /\ thresholdAt = [c \in Clients |-> None]
  /\ lastRejectAt = [c \in Clients |-> None]
  /\ ev = NoEv

\* a faulty variant: the cleaner is started before the error is looked at
NewStartsCleanerFirst(cfgs) ==
  /\ handler = "none"
  /\ \E cfg \in cfgs :
       LET p == ParseDuration(cfg.BanTime)
       IN /\ handler' = IF p.err THEN "nil" ELSE "ok"
          /\ maxFails' = cfg.NumberFails
          /\ banTime' = p.d
          /\ clientHeader' = cfg.ClientHeader
          /\ logger' = NewLogger("Fail-2-Ban", cfg.LogLevel)
          /\ levelArg' = cfg.LogLevel
          /\ bannedClients' = EmptyTable
          /\ timer' = "armed"
          /\ cleanerPc' = "select"
          /\ ev' = [NoEv EXCEPT !.op = "new", !.ret = ~p.err,
                                !.returned = p.err, !.input = cfg]
  /\ UNCHANGED <<mu, now, ctxDone, sweepNow, toVisit, sweepStart, req, history>>

\* New: returns nil and the error of line 51, or builds f, starts the
\* cleaner with its timer (lines 65 and 134) and returns f
New(cfgs) ==
  /\ handler = "none"
  /\ \E cfg \in cfgs :
       LET p == ParseDuration(cfg.BanTime)
       IN /\ ev' = [NoEv EXCEPT !.op = "new", !.ret = ~p.err,
                                !.returned = p.err, !.input = cfg]
          /\ IF p.err
             THEN /\ handler' = "nil"
                  /\ UNCHANGED <<maxFails, banTime, clientHeader, logger,
                                 levelArg, bannedClients, timer, cleanerPc>>
             ELSE /\ handler' = "ok"
                  /\ maxFails' = cfg.NumberFails
                  /\ banTime' = p.d
                  /\ clientHeader' = cfg.ClientHeader
                  /\ logger' = NewLogger("Fail-2-Ban", cfg.LogLevel)
                  /\ levelArg' = cfg.LogLevel
                  /\ bannedClients' = EmptyTable
                  /\ timer' = "armed"
                  /\ cleanerPc' = "select"
  /\ UNCHANGED <<mu, now, ctxDone, sweepNow, toVisit, sweepStart, req, history>>

(***************************************************************************)
(* sync.Mutex: Lock blocks until the mutex is free.                        *)
(***************************************************************************)
\* a faulty variant: Lock never blocks
CanLockAlways == TRUE

CanLock == mu = Unlocked

Min(a, b) == IF a < b THEN a ELSE b
\* the history counter fwd4xx stops counting at FwdCap
FwdCap == MaxNumberFails + 1

\* a goroutine at position pc that serves identity ip
Handler(pc, ip, tmp) == [pc |-> pc, client |-> ip, tmp |-> tmp]
\* the goroutines in flight with q moved on to p, and with q returned
Moved(q, p) == (req (-) SetToBag({q})) (+) SetToBag({p})
Returned(q) == req (-) SetToBag({q})
InFlight == BagToSet(req)

(***************************************************************************)
(* ServeHTTP, lines 71-78: resolve the identity, answer 403 on an error.   *)
(***************************************************************************)
\* a faulty variant: a request without an identity is let through
StartFailOpen(rqs) ==
  /\ handler = "ok"
  /\ BagCardinality(req) < NumReqs
  /\ \E rq \in rqs :
       LET res == extractClient(clientHeader, rq)
           ip == IF res.err THEN rq.remoteAddr[1] ELSE res.client
       IN /\ req' = req (+) SetToBag({Handler("check_lock", ip, 0)})
          /\ ev' = [NoEv EXCEPT !.op = "start", !.client = ip, !.input = rq]
  /\ UNCHANGED <<config, bannedClients, mu, now, cleanerVars, history>>

Start(rqs) ==
  /\ handler = "ok"
  /\ BagCardinality(req) < NumReqs
  /\ \E rq \in rqs :
       LET res == extractClient(clientHeader, rq)
       IN IF res.err
          THEN /\ req' = req
               /\ ev' = [NoEv EXCEPT !.op = "error403", !.returned = TRUE,
                                     !.status = StatusForbidden,
                                     !.client = res.client, !.input = rq]
          ELSE /\ req' = req (+) SetToBag({Handler("check_lock", res.client, 0)})
               /\ ev' = [NoEv EXCEPT !.op = "start", !.client = res.client,
                                     !.input = rq]
  /\ UNCHANGED <<config, bannedClients, mu, now, cleanerVars, history>>

(***************************************************************************)
(* isClientBanned, lines 96-116.  t is the time.Now() of line 104 and u    *)
(* the one of line 111.  The result is the returned value and the table.   *)
(***************************************************************************)
\* a faulty variant: the threshold is compared with > where the code has >=
isClientBannedStrictThreshold(m, ip, t, u) ==
  IF ~Has(m, ip) THEN [ret |-> FALSE, table |-> m]
  ELSE IF m[ip].failCounter > maxFails
  THEN IF hasBanExpired(m[ip], t, banTime)
       THEN [ret |-> FALSE, table |-> Delete(m, ip)]
       ELSE [ret |-> TRUE,
             table |-> Put(m, ip, [lastViewed |-> u,
                                   failCounter |-> UintInc(m[ip].failCounter)])]
  ELSE [ret |-> FALSE, table |-> m]

\* a faulty variant: expiry is tested before the threshold
isClientBannedExpiryFirst(m, ip, t, u) ==
  IF ~Has(m, ip) THEN [ret |-> FALSE, table |-> m]
  ELSE IF hasBanExpired(m[ip], t, banTime)
  THEN [ret |-> FALSE, table |-> Delete(m, ip)]
  ELSE IF m[ip].failCounter >= maxFails
  THEN [ret |-> TRUE,
        table |-> Put(m, ip, [lastViewed |-> u,
                              failCounter |-> UintInc(m[ip].failCounter)])]
  ELSE [ret |-> FALSE, table |-> m]

\* a faulty variant: an expired ban is lifted without deleting the record
isClientBannedKeepExpired(m, ip, t, u) ==
  IF ~Has(m, ip) THEN [ret |-> FALSE, table |-> m]
  ELSE IF m[ip].failCounter >= maxFails
  THEN IF hasBanExpired(m[ip], t, banTime)
       THEN [ret |-> FALSE, table |-> m]
       ELSE [ret |-> TRUE,
             table |-> Put(m, ip, [lastViewed |-> u,
                                   failCounter |-> UintInc(m[ip].failCounter)])]
  ELSE [ret |-> FALSE, table |-> m]

isClientBanned(m, ip, t, u) ==
  IF ~Has(m, ip) THEN [ret |-> FALSE, table |-> m]
  ELSE IF m[ip].failCounter >= maxFails
  THEN IF hasBanExpired(m[ip], t, banTime)
       THEN [ret |-> FALSE, table |-> Delete(m, ip)]
       ELSE [ret |-> TRUE,
             table |-> Put(m, ip, [lastViewed |-> u,
                                   failCounter |-> UintInc(m[ip].failCounter)])]
  ELSE [ret |-> FALSE, table |-> m]

\* history: which case of the ban state machine a check found
CaseOf(m, ip, t) ==
  IF ip \notin DOMAIN m THEN "absent"
  ELSE IF m[ip].failCounter < maxFails THEN "below"
  ELSE IF t > m[ip].lastViewed + banTime THEN "expired"
  ELSE IF t = m[ip].lastViewed + banTime THEN "boundary"
  ELSE "inwindow"

\* history: whether time t is within banTime of the time `since`
Within(since, t) == since # None /\ t <= since + banTime

\* history after a step that took client ip's record from m to n
ExpectedAfter(m, n, ip) ==
  IF ~Has(n, ip) THEN 0
  ELSE IF ~Has(m, ip) THEN 1
  ELSE IF n[ip].failCounter # m[ip].failCounter THEN UintInc(expected[ip])
  ELSE expected[ip]

CheckLock(q) ==
  /\ q.pc = "check_lock"
  /\ CanLock
  /\ mu' = HeldByHandler
  /\ req' = Moved(q, [q EXCEPT !.pc = "check_body"])
  /\ ev' = NoEv
  /\ UNCHANGED <<config, bannedClients, now, cleanerVars, history>>

\* the body of isClientBanned with its deferred Unlock, then lines 81-84
CheckBody(q) ==
  /\ q.pc = "check_body"
  /\ \E u \in {now, now + 1} \cap Times :
       LET ip == q.client
           res == isClientBanned(bannedClients, ip, now, u)
       IN /\ u # now => res.ret
          /\ bannedClients' = res.table
          /\ now' = IF res.ret THEN u ELSE now
          /\ req' = IF res.ret THEN Returned(q)
                    ELSE Moved(q, [q EXCEPT !.pc = "next"])
          /\ expected' = [expected EXCEPT
                ![ip] = ExpectedAfter(bannedClients, res.table, ip)]
          /\ fwd4xx' = [fwd4xx EXCEPT
                ![ip] = IF Has(res.table, ip) THEN @ ELSE 0]
          /\ lastRejectAt' = [lastRejectAt EXCEPT
                ![ip] = IF res.ret THEN u ELSE None]
          /\ thresholdAt' = [thresholdAt EXCEPT ![ip] = None]
          /\ ev' = [NoEv EXCEPT
                !.op = "check", !.client = ip,
                !.case = CaseOf(bannedClients, ip, now),
                !.ret = res.ret,
                !.status = IF res.ret THEN StatusForbidden ELSE 0,
                !.returned = res.ret,
                !.pre = Lookup(bannedClients, ip), !.at = now,
                !.same = (res.table = bannedClients),
                !.streak = Within(lastRejectAt[ip], now),
                !.crossed = Within(thresholdAt[ip], now)]
  /\ mu' = Unlocked
  /\ UNCHANGED <<config, cleanerVars>>

(***************************************************************************)
(* ServeHTTP, lines 87-93: the downstream handler writes its status        *)
(* through the interceptor, which starts at StatusAccepted.                *)
(***************************************************************************)
Downstream(q, codes) ==
  /\ q.pc = "next"
  /\ \E code \in codes :
       LET icode == IF code = 0 THEN StatusAccepted ELSE code
           bad == checkBadUserRequestStatusCode(icode)
       IN /\ req' = IF bad THEN Moved(q, [q EXCEPT !.pc = "inc_lock"])
                    ELSE Returned(q)
          /\ ev' = [NoEv EXCEPT
                !.op = "downstream", !.client = q.client,
                !.ret = bad, !.returned = ~bad,
                !.status = IF code = 0 THEN 200 ELSE code]
  /\ UNCHANGED <<config, bannedClients, mu, now, cleanerVars, history>>

(***************************************************************************)
(* incrementViewCounter, lines 118-130.  The increment of line 129 is a    *)
(* read of failCounter followed by a write, both under the mutex.          *)
(***************************************************************************)
IncLock(q) ==
  /\ q.pc = "inc_lock"
  /\ CanLock
  /\ mu' = HeldByHandler
  /\ req' = Moved(q, [q EXCEPT !.pc = "inc_body"])
  /\ ev' = NoEv
  /\ UNCHANGED <<config, bannedClients, now, cleanerVars, history>>

\* lines 122-128: the table after the nil check and the write of lastViewed
incrementViewCounter(m, ip, t) ==
  IF ~Has(m, ip) THEN Put(m, ip, newClient)
  ELSE Put(m, ip, [m[ip] EXCEPT !.lastViewed = t])

\* a faulty variant: the mutex is released after the read of failCounter
\* and before its write
IncBodyUnlocksEarly(q) ==
  /\ q.pc = "inc_body"
  /\ LET ip == q.client
         created == ~Has(bannedClients, ip)
         count == IF created THEN 1 ELSE UintInc(bannedClients[ip].failCounter)
     IN /\ bannedClients' = incrementViewCounter(bannedClients, ip, now)
        /\ req' = IF created THEN Returned(q)
                  ELSE Moved(q, [q EXCEPT !.pc = "inc_store",
                                          !.tmp = bannedClients[ip].failCounter])
        /\ mu' = Unlocked
        /\ expected' = [expected EXCEPT ![ip] = IF created THEN 1 ELSE @]
        /\ fwd4xx' = [fwd4xx EXCEPT ![ip] = IF created THEN 1 ELSE @]
        /\ thresholdAt' = [thresholdAt EXCEPT
              ![ip] = IF count = maxFails THEN now ELSE None]
        /\ ev' = [NoEv EXCEPT
              !.op = "inc", !.client = ip, !.returned = created,
              !.pre = Lookup(bannedClients, ip), !.at = now]
  /\ UNCHANGED <<config, now, cleanerVars, lastRejectAt>>

\* lines 122-128 and the read of line 129; returns at line 126 on a new record
IncBody(q) ==
  /\ q.pc = "inc_body"
  /\ LET ip == q.client
         created == ~Has(bannedClients, ip)
         count == IF created THEN 1 ELSE UintInc(bannedClients[ip].failCounter)
     IN /\ bannedClients' = incrementViewCounter(bannedClients, ip, now)
        /\ req' = IF created THEN Returned(q)
                  ELSE Moved(q, [q EXCEPT !.pc = "inc_store",
                                          !.tmp = bannedClients[ip].failCounter])
        /\ mu' = IF created THEN Unlocked ELSE mu
        /\ expected' = [expected EXCEPT ![ip] = IF created THEN 1 ELSE @]
        /\ fwd4xx' = [fwd4xx EXCEPT ![ip] = IF created THEN 1 ELSE @]
        /\ thresholdAt' = [thresholdAt EXCEPT
              ![ip] = IF count = maxFails THEN now ELSE None]
        /\ ev' = [NoEv EXCEPT
              !.op = "inc", !.client = ip, !.returned = created,
              !.pre = Lookup(bannedClients, ip), !.at = now]
  /\ UNCHANGED <<config, now, cleanerVars, lastRejectAt>>

\* the write of line 129
StoreCounter(m, ip, v) ==
  IF Has(m, ip) THEN Put(m, ip, [m[ip] EXCEPT !.failCounter = UintInc(v)])
  ELSE m

\* the write of line 129 and the deferred Unlock
IncStore(q) ==
  /\ q.pc = "inc_store"
  /\ LET ip == q.client
     IN /\ bannedClients' = StoreCounter(bannedClients, ip, q.tmp)
        /\ expected' = [expected EXCEPT ![ip] = UintInc(@)]
        /\ fwd4xx' = [fwd4xx EXCEPT ![ip] = Min(@ + 1, FwdCap)]
        /\ ev' = [NoEv EXCEPT
              !.op = "store", !.client = ip, !.returned = TRUE,
              !.pre = Lookup(bannedClients, ip), !.at = now]
  /\ req' = Returned(q)
  /\ mu' = Unlocked
  /\ UNCHANGED <<config, now, cleanerVars, thresholdAt, lastRejectAt>>

(***************************************************************************)
(* The clock, the context and the timer.                                   *)
(***************************************************************************)
Tick ==
  /\ now < MaxTime
  /\ now' = now + 1
  /\ ev' = NoEv
  /\ UNCHANGED <<config, bannedClients, mu, cleanerVars, req, history>>

\* the owner of the context cancels it
Cancel ==
  /\ ~ctxDone
  /\ ctxDone' = TRUE
  /\ ev' = NoEv
  /\ UNCHANGED <<config, bannedClients, mu, now, timer, cleanerPc, sweepNow,
                 toVisit, sweepStart, req, history>>

\* banTime / 4 after it was armed the timer sends on timer.C
TimerFire ==
  /\ timer = "armed"
  /\ cleanerPc = "select"
  /\ timer' = "fired"
  /\ ev' = NoEv
  /\ UNCHANGED <<config, bannedClients, mu, now, ctxDone, cleanerPc, sweepNow,
                 toVisit, sweepStart, req, history>>

(***************************************************************************)
(* cleaner, lines 133-160.                                                 *)
(***************************************************************************)
\* select takes case <-ctx.Done()
CleanerShutdown ==
  /\ cleanerPc = "select"
  /\ ctxDone
  /\ cleanerPc' = "stopped"
  /\ ev' = NoEv
  /\ UNCHANGED <<config, bannedClients, mu, now, ctxDone, timer, sweepNow,
                 toVisit, sweepStart, req, history>>

\* select takes case <-timer.C
CleanerWake ==
  /\ cleanerPc = "select"
  /\ timer = "fired"
  /\ timer' = "drained"
  /\ cleanerPc' = "lock"
  /\ ev' = NoEv
  /\ UNCHANGED <<config, bannedClients, mu, now, ctxDone, sweepNow, toVisit,
                 sweepStart, req, history>>

\* a faulty variant: the sweep compares against the time the cleaner was
\* started at
CleanerLockStaleNow ==
  /\ cleanerPc = "lock"
  /\ CanLock
  /\ mu' = HeldByCleaner
  /\ sweepNow' = StartTime
  /\ toVisit' = DOMAIN bannedClients
  /\ sweepStart' = bannedClients
  /\ cleanerPc' = "sweep"
  /\ ev' = NoEv
  /\ UNCHANGED <<config, bannedClients, now, ctxDone, timer, req, history>>

\* lines 143-147: Lock, now := time.Now(), the range loop starts
CleanerLock ==
  /\ cleanerPc = "lock"
  /\ CanLock
  /\ mu' = HeldByCleaner
  /\ sweepNow' = now
  /\ toVisit' = DOMAIN bannedClients
  /\ sweepStart' = bannedClients
  /\ cleanerPc' = "sweep"
  /\ ev' = NoEv
  /\ UNCHANGED <<config, bannedClients, now, ctxDone, timer, req, history>>

\* a faulty variant: the sweep spares the records below the threshold
sweepEntryBannedOnly(m, ip, t) ==
  IF Has(m, ip) /\ m[ip].failCounter >= maxFails
     /\ hasBanExpired(m[ip], t, banTime)
  THEN Delete(m, ip) ELSE m

\* one iteration of the range loop, lines 147-154
sweepEntry(m, ip, t) ==
  IF Has(m, ip) /\ hasBanExpired(m[ip], t, banTime) THEN Delete(m, ip) ELSE m

\* the range loop visits the keys in the map's own order
CleanerVisit ==
  /\ cleanerPc = "sweep"
  /\ \E ip \in toVisit :
       /\ bannedClients' = sweepEntry(bannedClients, ip, sweepNow)
       /\ toVisit' = toVisit \ {ip}
       /\ expected' = [expected EXCEPT
             ![ip] = IF Has(bannedClients', ip) THEN @ ELSE 0]
       /\ fwd4xx' = [fwd4xx EXCEPT
             ![ip] = IF Has(bannedClients', ip) THEN @ ELSE 0]
  /\ ev' = NoEv
  /\ UNCHANGED <<config, mu, now, ctxDone, timer, cleanerPc, sweepNow,
                 sweepStart, req, thresholdAt, lastRejectAt>>

\* a faulty variant: the loop goes back to select without Unlock
CleanerUnlockKeepsLock ==
  /\ cleanerPc = "sweep"
  /\ toVisit = {}
  /\ mu' = mu
  /\ timer' = "armed"
  /\ cleanerPc' = "select"
  /\ sweepNow' = None
  /\ sweepStart' = EmptyTable
  /\ ev' = NoEv
  /\ UNCHANGED <<config, bannedClients, now, ctxDone, toVisit, req, history>>

\* lines 156-158: Unlock and timer.Reset
CleanerUnlock ==
  /\ cleanerPc = "sweep"
  /\ toVisit = {}
  /\ mu' = Unlocked
  /\ timer' = "armed"
  /\ cleanerPc' = "select"
  /\ sweepNow' = None
  /\ sweepStart' = EmptyTable
  /\ ev' = NoEv
  /\ UNCHANGED <<config, bannedClients, now, ctxDone, toVisit, req, history>>

(***************************************************************************)
(* Specifications.                                                         *)
(***************************************************************************)
\* the steps of the handlers past the identity
Handle(codes) ==
  \/ \E q \in InFlight : CheckLock(q)
  \/ \E q \in InFlight : CheckBody(q)
  \/ \E q \in InFlight : Downstream(q, codes)
  \/ \E q \in InFlight : IncLock(q)
  \/ \E q \in InFlight : IncBody(q)
  \/ \E q \in InFlight : IncStore(q)

\* the cleaner's loop while its context is live
Clean ==
  \/ TimerFire
  \/ CleanerWake
  \/ CleanerLock
  \/ CleanerVisit
  \/ CleanerUnlock

\* the context is cancelled and the cleaner returns
Stop ==
  \/ Cancel
  \/ CleanerShutdown

\* any requests, from any client, served concurrently
Next ==
  \/ Start(Requests)
  \/ Handle(DownstreamCodes)
  \/ Tick
  \/ Clean
  \/ Stop

Spec == Init /\ [][Next]_vars

\* the requests of one client
OneClient == CHOOSE c \in Clients : TRUE
RequestsOfOne ==
  {rq \in Requests : rq.hdr \in {"", OneClient} /\ rq.remoteAddr[1] = OneClient}
\* a downstream handler that answers 200 or 404
TwoCodes == {200, 404}

\* one client's requests, served concurrently
NextOne ==
  \/ Start(RequestsOfOne)
  \/ Handle(TwoCodes)
  \/ Tick
  \/ Clean

SpecOne == Init /\ [][NextOne]_vars

\* a downstream handler that always answers 404
NotFound == {404}

\* one request per client: its address in the header and in RemoteAddr
RequestsPlain ==
  {rq \in Requests : rq.hdr = rq.remoteAddr[1] /\ Len(rq.remoteAddr) = 3}

\* requests served one after another, each answered 404 downstream
NextSeq ==
  \/ (req = EmptyBag /\ Start(RequestsPlain))
  \/ Handle(NotFound)
  \/ Tick
  \/ Clean

SpecSeq == Init /\ [][NextSeq]_vars

\* one client's requests, served concurrently, any downstream status,
\* while the cleaner's timer has not fired
NextCodes ==
  \/ Start(RequestsOfOne)
  \/ Handle(DownstreamCodes)
  \/ Tick

SpecCodes == Init /\ [][NextCodes]_vars

\* one client's requests, the cleaner, and the cancellation of its context
NextStop ==
  \/ Start(RequestsOfOne)
  \/ Handle(NotFound)
  \/ Tick
  \/ Clean
  \/ Stop

SpecStop == Init /\ [][NextStop]_vars

\* two clients: the downstream handler answers 404 to one, 200 to the other
FailingClient == OneClient
OkClient == CHOOSE c \in Clients : c # FailingClient
ClientCodes(c) == IF c = FailingClient THEN NotFound ELSE {200}
\* the requests that carry identity c in the configured header
RequestsOf(c) == {rq \in Requests : rq.hdr = c}

\* the clients send concurrently, each its own requests one after another;
\* the cleaner does not run and no time passes between the requests
NextPar ==
  \/ \E c \in Clients :
       /\ \A q \in InFlight : q.client # c
       /\ Start(RequestsOf(c))
  \/ \E q \in InFlight : CheckLock(q)
  \/ \E q \in InFlight : CheckBody(q)
  \/ \E q \in InFlight : Downstream(q, ClientCodes(q.client))
  \/ \E q \in InFlight : IncLock(q)
  \/ \E q \in InFlight : IncBody(q)
  \/ \E q \in InFlight : IncStore(q)

SpecPar == Init /\ [][NextPar]_vars

(***************************************************************************)
(* A Logger on its own: log.New, then calls of its logging methods.        *)
(***************************************************************************)
LogNew(levels) ==
  /\ logger = NoLogger
  /\ \E level \in levels :
       /\ logger' = NewLogger("test", level)
       /\ levelArg' = level
       /\ ev' = [NoEv EXCEPT !.op = "lognew", !.case = level]
  /\ UNCHANGED <<maxFails, banTime, clientHeader, handler, bannedClients, mu,
                 now, cleanerVars, req, history>>

\* Debugf, Infof, Warnf, Errorf (and Debug, Info, Warn, Error, which call
\* them): l.message(level, ...)
Log(levels) ==
  /\ logger # NoLogger
  /\ Len(logger.output) < MaxLog
  /\ \E level \in levels :
       /\ logger' = message(logger, level, "message")
       /\ ev' = [NoEv EXCEPT !.op = "log", !.case = level,
                             !.ret = (logger'.output # logger.output)]
  /\ UNCHANGED <<maxFails, banTime, clientHeader, levelArg, handler,
                 bannedClients, mu, now, cleanerVars, req, history>>

NextLog ==
  \/ LogNew(LogLevels)
  \/ Log(MessageLevels)

SpecLog == InitNew /\ [][NextLog]_vars

\* the requests that come from one peer, with any header value
RequestsOfPeer == {rq \in Requests : rq.remoteAddr[1] = OneClient}

\* New with any Config, then the requests of one peer served one after
\* another, each answered 404 downstream, with no time passing between them
NextNew ==
  \/ New(Configs)
  \/ (req = EmptyBag /\ Start(RequestsOfPeer))
  \/ Handle(NotFound)
  \/ Clean

SpecNew == InitNew /\ [][NextNew]_vars

TypeOK ==
  /\ maxFails \in 1..MaxNumberFails
  /\ banTime \in BanTimes
  /\ DOMAIN bannedClients \subseteq Clients
  /\ \A ip \in DOMAIN bannedClients :
       /\ bannedClients[ip].failCounter \in 0..(UintModulus - 1)
       /\ bannedClients[ip].lastViewed \in Times \cup {ZeroTime}
  /\ mu \in {Unlocked, HeldByCleaner, HeldByHandler}
  /\ now \in Times
  /\ BagCardinality(req) <= NumReqs

(***************************************************************************)
(* Properties.  ev describes the step that led to the current state:      *)
(* ev.pre is the client's record before the step, ev.at the clock then.    *)
(***************************************************************************)
\* the last step was a call of isClientBanned that found a record of ev.client
\* at or above the threshold
CheckedAtThreshold ==
  /\ ev.op = "check"
  /\ ev.pre # Absent
  /\ ev.pre.failCounter >= maxFails
\* ... whose ban window had not elapsed
CheckedInWindow ==
  CheckedAtThreshold /\ ~(ev.at > ev.pre.lastViewed + banTime)
\* ... whose ban window had elapsed
CheckedExpired ==
  CheckedAtThreshold /\ ev.at > ev.pre.lastViewed + banTime

\* C1: a request whose client's record is at or above maxFails and inside its
\* ban window when isClientBanned runs is answered 403 and ServeHTTP returns
\* without calling the downstream handler.
C1_BannedIsForbidden ==
  CheckedInWindow =>
    /\ ev.status = StatusForbidden
    /\ ev.returned

C1_Witness ==
  /\ CheckedInWindow
  /\ ev.status = StatusForbidden
  /\ ev.returned

\* C4: isClientBanned returns false for an identity without a record and for
\* one whose failCounter is below maxFails, whatever its lastViewed, and
\* leaves the whole table as it was.
C4_BelowThresholdUntouched ==
  (ev.op = "check" /\ (ev.pre = Absent \/ ev.pre.failCounter < maxFails)) =>
    /\ ~ev.ret
    /\ ev.same
    /\ Lookup(bannedClients, ev.client) = ev.pre

\* a record below the threshold whose lastViewed is older than banTime
C4_Witness ==
  /\ ev.op = "check"
  /\ ev.pre # Absent
  /\ ev.pre.failCounter < maxFails
  /\ ev.at > ev.pre.lastViewed + banTime
  /\ ~ev.ret
  /\ ev.same

\* the effect of one call of isClientBanned inside the ban window
C5_ExtendsBan ==
  CheckedInWindow =>
    /\ ev.ret
    /\ Has(bannedClients, ev.client)
    /\ bannedClients[ev.client].failCounter = UintInc(ev.pre.failCounter)
    /\ bannedClients[ev.client].lastViewed = now

\* C5: a call of isClientBanned on a record at or above the threshold and
\* inside its window returns true, adds one to failCounter and sets
\* lastViewed to the current time; and a client that was rejected and sends
\* its next request no later than banTime after that is rejected again,
\* however many such requests it sends.
C5_BanNeverLapses ==
  /\ C5_ExtendsBan
  /\ (ev.op = "check" /\ ev.streak) => ev.ret

\* C6: for a record at or above the threshold isClientBanned returns true
\* exactly when now <= lastViewed + banTime, the boundary included, and
\* hasBanExpired(now, d) is true exactly when now > lastViewed + d.
C6_ExpiryIsStrict ==
  /\ CheckedAtThreshold => (ev.ret <=> ev.at <= ev.pre.lastViewed + banTime)
  /\ \A ip \in DOMAIN bannedClients : \A t \in Times : \A d \in BanTimes :
       hasBanExpired(bannedClients[ip], t, d)
         <=> t > bannedClients[ip].lastViewed + d

\* a check at now = lastViewed + banTime that was rejected
C6_Witness ==
  /\ CheckedAtThreshold
  /\ ev.at = ev.pre.lastViewed + banTime
  /\ ev.ret

\* C7: when isClientBanned finds a record at or above the threshold whose
\* window has elapsed, it deletes the record itself and returns false, the
\* request goes on to the downstream handler, and a record created after
\* that starts at failCounter 1.
C7_LazyUnban ==
  /\ CheckedExpired =>
       /\ ~ev.ret
       /\ ~Has(bannedClients, ev.client)
       /\ ~ev.returned
       /\ Handler("next", ev.client, 0) \in InFlight
       /\ cleanerPc # "sweep"
  /\ (ev.op = "inc" /\ ev.pre = Absent) =>
       /\ Has(bannedClients, ev.client)
       /\ bannedClients[ev.client].failCounter = 1

\* a record that was extended while banned and whose window then elapsed
C7_Witness ==
  /\ CheckedExpired
  /\ ev.pre.lastViewed # ZeroTime
  /\ ~Has(bannedClients, ev.client)
  /\ Handler("next", ev.client, 0) \in InFlight

\* C8: incrementViewCounter stores failCounter 1 and lastViewed = now for an
\* identity without a record, and adds one to failCounter and sets
\* lastViewed = now for an identity with one.
C8_RecordFailure ==
  /\ (ev.op = "inc" /\ ev.pre = Absent) =>
       bannedClients[ev.client] = [lastViewed |-> ev.at, failCounter |-> 1]
  /\ (ev.op = "inc" /\ ev.pre # Absent) =>
       bannedClients[ev.client] = [ev.pre EXCEPT !.lastViewed = ev.at]
  /\ ev.op = "store" =>
       bannedClients[ev.client] =
         [ev.pre EXCEPT !.failCounter = UintInc(ev.pre.failCounter)]

\* the part of C8 about a record that exists
C8_ExistingRecord ==
  /\ (ev.op = "inc" /\ ev.pre # Absent) =>
       bannedClients[ev.client] = [ev.pre EXCEPT !.lastViewed = ev.at]
  /\ ev.op = "store" =>
       bannedClients[ev.client] =
         [ev.pre EXCEPT !.failCounter = UintInc(ev.pre.failCounter)]

\* C10: concurrent calls of incrementViewCounter for one identity lose no
\* update: the record's failCounter is, in uint arithmetic, the number of
\* increments and ban extensions completed since the record was created.
C10_NoLostUpdate ==
  \A c \in Clients :
    IF Has(bannedClients, c)
    THEN bannedClients[c].failCounter = expected[c]
    ELSE expected[c] = 0

\* an increment completed while another call for the same identity waited
C10_Witness ==
  /\ ev.op = "store"
  /\ Handler("inc_lock", ev.client, 0) \in InFlight
  /\ bannedClients[ev.client].failCounter = UintInc(ev.pre.failCounter)

\* C3: within one ban cycle of a client, from the creation of its record to
\* its deletion, at most maxFails of its requests are forwarded and
\* answered 4xx.
C3_AtMostMaxFails == \A c \in Clients : fwd4xx[c] <= maxFails

\* C2: a request before the threshold gets the downstream response, and
\* after the failure that brought failCounter to exactly maxFails the
\* client's next request, if it comes within banTime, is rejected with 403.
C2_NextIsBanned ==
  /\ (ev.op = "check" /\ ev.case \in {"absent", "below"}) => ~ev.ret
  /\ (ev.op = "check" /\ ev.crossed) =>
       (ev.ret /\ ev.status = StatusForbidden)

\* C2 for thresholds of two or more
C2_FromTwo == maxFails >= 2 => C2_NextIsBanned

\* C9: a sweep taken at sweepNow deletes every record with
\* sweepNow > lastViewed + banTime and no other, whatever its failCounter,
\* and leaves the surviving records as they were.
Survivors ==
  {ip \in DOMAIN sweepStart : ~(sweepNow > sweepStart[ip].lastViewed + banTime)}

C9_SweepExact ==
  (cleanerPc = "sweep" /\ toVisit = {}) =>
    /\ DOMAIN bannedClients = Survivors
    /\ \A ip \in Survivors : bannedClients[ip] = sweepStart[ip]
    /\ Cardinality(DOMAIN bannedClients) = Cardinality(Survivors)

\* a sweep that deleted a record below the threshold and kept another
C9_Witness ==
  /\ cleanerPc = "sweep"
  /\ toVisit = {}
  /\ \E ip \in DOMAIN sweepStart :
       ip \notin DOMAIN bannedClients /\ sweepStart[ip].failCounter < maxFails
  /\ \E ip \in DOMAIN sweepStart : ip \in DOMAIN bannedClients

\* the goroutines that are in incrementViewCounter or about to call it
Recording ==
  {q \in InFlight : q.pc \in {"inc_lock", "inc_body", "inc_store"}}
RecordingCount ==
  LET n(q) == CopiesIn(q, req)
      RECURSIVE Sum(_)
      Sum(S) == IF S = {} THEN 0
                ELSE LET q == CHOOSE x \in S : TRUE IN n(q) + Sum(S \ {q})
  IN Sum(Recording)

\* C11: a forwarded request goes on to incrementViewCounter exactly when the
\* downstream status is in 400..499; the step that observes the status
\* leaves the table as it was, a request with another status returns
\* without touching it, and a record is only ever created by a request that
\* was answered 4xx, so a client that only receives other codes has none.
C11_OnlyFailuresRecorded ==
  /\ [](ev.op = "downstream" =>
          /\ ev.ret <=> ev.status \in 400..499
          /\ ev.returned <=> ~ev.ret)
  /\ [][/\ ev'.op = "downstream" => bannedClients' = bannedClients
        /\ RecordingCount' > RecordingCount =>
             (ev'.op = "downstream" /\ ev'.status \in 400..499)
        /\ \A c \in Clients :
             (~Has(bannedClients, c) /\ Has(bannedClients', c)) =>
               (ev'.op = "inc" /\ ev'.client = c /\ RecordingCount >= 1)]_vars

\* a 500 forwarded to a client that has a record: nothing is recorded
C11_Witness ==
  /\ ev.op = "downstream"
  /\ ev.status = 500
  /\ ev.returned
  /\ Has(bannedClients, ev.client)
  /\ RecordingCount = 0

\* the last step was ServeHTTP resolving the identity of request ev.input
Resolved == ev.op \in {"start", "error403"}

\* C12: when extractClient returns an error for a request, ServeHTTP answers
\* 403 and returns: no goroutine goes on towards the downstream handler and
\* no record of any client is created, changed or deleted.
C12_FailClosed ==
  [][(ev'.op \in {"start", "error403"}
        /\ extractClient(clientHeader, ev'.input).err) =>
       /\ ev'.status = StatusForbidden
       /\ ev'.returned
       /\ req' = req
       /\ bannedClients' = bannedClients]_vars

\* a request without an identity rejected while the table holds a record
C12_Witness ==
  /\ ev.op = "error403"
  /\ ev.status = StatusForbidden
  /\ bannedClients # EmptyTable
  /\ req = EmptyBag

\* RemoteAddr is host, colon, port
HostPortForm(a) == Len(a) = 3 /\ a[1] # ":" /\ a[2] = ":" /\ a[3] # ":"

C14_MissingHeaderIsError ==
  (Resolved /\ clientHeader # "" /\ ev.input.hdr = "") =>
    (ev.op = "error403" /\ ev.client = "")

\* C18: when BanTime does not parse, New returns nil and the error and no
\* cleaner is started, then or later; when it parses, New returns a handler
\* with an empty table and the parsed duration, and its cleaner is started.
C18_NewIsAtomic ==
  /\ (ev.op = "new" /\ ParseDuration(ev.input.BanTime).err) =>
       /\ ~ev.ret /\ ev.returned
       /\ handler = "nil"
       /\ cleanerPc = "unborn" /\ timer = "none"
  /\ (ev.op = "new" /\ ~ParseDuration(ev.input.BanTime).err) =>
       /\ ev.ret /\ ~ev.returned
       /\ handler = "ok"
       /\ bannedClients = EmptyTable
       /\ banTime = ParseDuration(ev.input.BanTime).d
       /\ maxFails = ev.input.NumberFails
       /\ cleanerPc = "select" /\ timer = "armed"
  /\ handler \in {"none", "nil"} => (cleanerPc = "unborn" /\ req = EmptyBag)
  /\ handler = "ok" => cleanerPc # "unborn"

\* New called with BanTime "1", a number without a unit
C18_Witness ==
  /\ ev.op = "new"
  /\ ev.input.BanTime = <<"1">>
  /\ handler = "nil"
  /\ cleanerPc = "unborn"

\* C15: once the context is cancelled the cleaner starts no further sweep:
\* at its select it either stays or returns, also when the timer has fired
\* and timer.C is pending at the same select, and also when the context was
\* cancelled before the cleaner first reached the select.
C15_NoSweepAfterCancel ==
  [][(ctxDone /\ cleanerPc = "select") =>
       cleanerPc' \in {"select", "stopped"}]_vars

\* the cleaner returns only from its select and only on a cancelled context
C15_StopsOnlyOnCancel ==
  cleanerPc = "stopped" => (ctxDone /\ mu # HeldByCleaner /\ toVisit = {})

\* C16: with each client's requests served one after another and all of
\* them inside the ban window, a request of the always-4xx client is
\* forwarded while its record counts fewer than maxFails failures and
\* answered 403 from then on; the always-200 client is never rejected and
\* never has a record; and the table holds no record of anyone else.
C16_ClientsIndependent ==
  /\ (ev.op = "check" /\ ev.client = FailingClient) =>
       (ev.ret <=> (ev.pre # Absent /\ ev.pre.failCounter >= maxFails))
  /\ (ev.op = "check" /\ ev.client = OkClient) => ~ev.ret
  /\ DOMAIN bannedClients \subseteq {FailingClient}

\* no step of one client's request changes the record of another client
C16_OthersUntouched ==
  [][\A c \in Clients :
       (ev'.op \in {"start", "check", "downstream", "inc", "store"}
          /\ ev'.client # c) =>
         Lookup(bannedClients', c) = Lookup(bannedClients, c)]_vars

\* C17: every record in the table has failCounter >= 1, also after any
\* number of ban extensions of the unsigned counter.  (The table is a map:
\* it holds at most one record per identity.)
C17_CounterAtLeastOne ==
  \A ip \in DOMAIN bannedClients : bannedClients[ip].failCounter >= 1

\* C20: a record below the threshold is not removed by a sweep that runs
\* less than banTime after the failure that created it: a sweep taken less
\* than banTime after the handler was constructed removes no such record,
\* every failure being younger than banTime then.
C20_YoungRecordSurvives ==
  (cleanerPc = "sweep" /\ toVisit = {} /\ sweepNow < StartTime + banTime) =>
    \A ip \in DOMAIN sweepStart :
      sweepStart[ip].failCounter < maxFails => Has(bannedClients, ip)

\* C20 for the records that were touched after their creation
C20_TouchedRecordSurvives ==
  (cleanerPc = "sweep" /\ toVisit = {} /\ sweepNow < StartTime + banTime) =>
    \A ip \in DOMAIN sweepStart :
      sweepStart[ip].lastViewed # ZeroTime => Has(bannedClients, ip)

\* C19: a Logger made by New(prefix, level) writes a message exactly when
\* the message's level is at least level, in the order DEBUG < INFO < WARN
\* < ERROR with an unknown level counting as INFO, and what it writes
\* carries its prefix and the message's level.
C19_EmitsFromLevel ==
  ev.op = "log" =>
    /\ ev.ret <=> toInt(ev.case) >= toInt(levelArg)
    /\ ev.ret =>
         /\ logger.output[Len(logger.output)].level = ev.case
         /\ logger.output[Len(logger.output)].prefix = "test"

\* C19 for a Logger made with a level that counts as INFO
C19_AtInfo ==
  (ev.op = "log" /\ toInt(levelArg) = toInt(Info)) =>
    (ev.ret <=> toInt(ev.case) >= toInt(levelArg))

\* one client's plain request
RequestsPlainOfOne == {rq \in RequestsPlain : rq.hdr = OneClient}

\* one client's requests served concurrently beside the cleaner, which may
\* be cancelled
NextLock ==
  \/ Start(RequestsPlainOfOne)
  \/ Handle(NotFound)
  \/ Clean
  \/ Stop

\* a runnable goroutine runs
FairSteps ==
  /\ WF_vars(\E q \in InFlight : CheckBody(q))
  /\ WF_vars(\E q \in InFlight : Downstream(q, NotFound))
  /\ WF_vars(\E q \in InFlight : IncBody(q))
  /\ WF_vars(\E q \in InFlight : IncStore(q))
  /\ WF_vars(CleanerVisit)
  /\ WF_vars(CleanerUnlock)
\* sync.Mutex hands the lock to a goroutine that has waited: one that finds
\* the mutex free again and again acquires it
FairLock ==
  /\ SF_vars(\E q \in InFlight : CheckLock(q))
  /\ SF_vars(\E q \in InFlight : IncLock(q))
  /\ SF_vars(CleanerLock)

\* the middleware constructed with the largest threshold
InitLock == Init /\ maxFails = MaxNumberFails

SpecLock == InitLock /\ [][NextLock]_vars /\ FairSteps /\ FairLock

\* one client's requests, one after another, beside a cleaner that is never
\* cancelled
NextReap ==
  \/ (req = EmptyBag /\ Start(RequestsPlainOfOne))
  \/ Handle(NotFound)
  \/ Tick
  \/ Clean

\* time passes, the timer fires when its period is over and select then
\* takes the ready case
FairTimer ==
  /\ WF_vars(Tick)
  /\ WF_vars(TimerFire)
  /\ WF_vars(CleanerWake)

SpecReap == Init /\ [][NextReap]_vars /\ FairSteps /\ FairLock /\ FairTimer

\* the goroutines inside isClientBanned or incrementViewCounter, past Lock
InHandlerSection ==
  {q \in InFlight : q.pc \in {"check_body", "inc_body", "inc_store"}}
\* how many goroutines, the cleaner included, are inside a critical section
CriticalCount ==
  LET RECURSIVE Sum(_)
      Sum(S) == IF S = {} THEN 0
                ELSE LET q == CHOOSE x \in S : TRUE
                     IN CopiesIn(q, req) + Sum(S \ {q})
  IN Sum(InHandlerSection) + (IF cleanerPc = "sweep" THEN 1 ELSE 0)

\* C21: at most one of isClientBanned, incrementViewCounter and the sweep is
\* inside its critical section, and it holds the mutex from its Lock to its
\* return: between the read and the write of a record in
\* incrementViewCounter, and for the whole pass of a sweep.  The table
\* changes only in steps taken with the mutex held.
C21_MutualExclusion ==
  /\ [](/\ CriticalCount <= 1
        /\ CriticalCount = 0 <=> mu = Unlocked
        /\ InHandlerSection # {} <=> mu = HeldByHandler
        /\ cleanerPc = "sweep" <=> mu = HeldByCleaner)
  /\ [][bannedClients' # bannedClients => mu # Unlocked]_vars

\* a goroutine between the read and the write of failCounter while another
\* request and the cleaner wait for the mutex
C21_Witness ==
  /\ \E q \in InFlight : q.pc = "inc_store"
  /\ \E q \in InFlight : q.pc \in {"check_lock", "inc_lock"}
  /\ cleanerPc = "lock"
  /\ mu = HeldByHandler

\* the goroutines waiting in Lock
Waiting(pc) == \E q \in InFlight : q.pc = pc

\* C22: isClientBanned, incrementViewCounter and the sweep release the
\* mutex on every path: it is free after each return, the cleaner never
\* terminates holding it, some holder or waiter can always step, every
\* acquisition is followed by a release, and a waiting handler or cleaner
\* acquires the mutex.
C22_LockReleased ==
  /\ [](/\ ev.op \in {"check", "store"} => mu = Unlocked
        /\ (ev.op = "inc" /\ ev.returned) => mu = Unlocked
        /\ cleanerPc \in {"select", "lock", "stopped"} => mu # HeldByCleaner
        /\ InHandlerSection = {} => mu # HeldByHandler)
  /\ [](mu # Unlocked =>
          ENABLED (\/ \E q \in InFlight : CheckBody(q)
                   \/ \E q \in InFlight : IncBody(q)
                   \/ \E q \in InFlight : IncStore(q)
                   \/ CleanerVisit
                   \/ CleanerUnlock))
  /\ (mu # Unlocked) ~> (mu = Unlocked)
  /\ Waiting("check_lock") ~> Waiting("check_body")
  /\ Waiting("inc_lock") ~> Waiting("inc_body")
  /\ (cleanerPc = "lock") ~> (cleanerPc = "sweep")

\* the cleaner has terminated on cancellation while a handler holds the
\* mutex and another waits for it
C22_Witness ==
  /\ cleanerPc = "stopped"
  /\ mu = HeldByHandler
  /\ Waiting("inc_body")
  /\ Waiting("check_lock")

\* a request of the client is being served
Busy(c) == \E q \in InFlight : q.client = c
\* the record's ban time ends before the last instant of the clock
Expirable(c) ==
  Has(bannedClients, c) /\ After(MaxTime, Add(bannedClients[c].lastViewed, banTime))

\* C23: with the cleaner running, the record of a client that has stopped
\* sending requests is deleted, whatever its counter: a record whose ban
\* time ends within the clock does not stay forever while no request of its
\* client is served.  A request that finds no record is admitted.
C23_StaleRecordReaped ==
  /\ \A c \in Clients :
       []<>(~Has(bannedClients, c) \/ Busy(c) \/ ~Expirable(c))
  /\ [](ev.op = "check" /\ ev.pre = Absent => ~ev.ret /\ ~ev.returned)

\* a sweep has just deleted the record of a banned client, viewed after the
\* cleaner was started, while none of its requests is being served
C23_Witness ==
  /\ cleanerPc = "sweep"
  /\ req = EmptyBag
  /\ \E c \in Clients :
       /\ Has(sweepStart, c)
       /\ sweepStart[c].failCounter >= maxFails
       /\ sweepStart[c].lastViewed >= StartTime
       /\ c \notin toVisit
       /\ ~Has(bannedClients, c)

====
